---------------------------- MODULE Spec2Model ----------------------------
(***************************************************************************)
(* imageQC_dash: trend dashboard for automated QC results.                 *)
(*                                                                         *)
(* Three parts of src/src/imageQC_dash/imageQC_dash.py are modelled:       *)
(*   read_csv              the tab separated result file parser            *)
(*   get_data              the aggregation pass over the template config   *)
(*   generate_figure_list  the per group limit evaluation                  *)
(*                                                                         *)
(* pandas is modelled by what read_csv, dropna, sort_values and boolean    *)
(* indexing do to a table of cells; floats are modelled as exact rationals *)
(* (numerator over a positive denominator).                                *)
(***************************************************************************)
EXTENDS Integers, Sequences, FiniteSets, TLC

VARIABLES
    pc,             \* position of the running operation
    \* ---- read_csv on its own
    input_file,     \* the source the path names (file or bucket object)
    decimal_mark,   \* the decimal argument
    client,         \* "none" (local file) or "minio" (bucket client)
    csv_result,     \* what read_csv returned or raised
    \* ---- get_data
    paramsets,      \* load_paramset_decimarks: modality -> <<[label, decimal_mark]>>
    lim_plots,      \* limits_and_plot_templates: modality -> <<lim template>>, partial
    auto_no,        \* 0 = auto_templates, 1 = auto_vendor_templates
    mod,            \* modality of the inner loop
    mods_done,      \* modalities already iterated in collection auto_no
    param_labels, decimarks, lim_labels,   \* per modality locals
    modality_dict,  \* ordered: <<[mod, templates]>>
    temp,           \* the configuration entry of the last loop body
    appended,       \* whether the last loop body appended a Template
    used_decimal,   \* decimal mark the last loop body handed to read_csv
    n_steps,        \* loop bodies run so far
    n_eligible,     \* entries so far that passed the eligibility gate
    n_unreadable,   \* eligible entries so far whose result file is missing/unreadable
    n_broken,       \* eligible entries so far whose file is there but gave no Template
    loaded_mods,    \* modalities a Template was appended to so far
    raised,         \* exception that left get_data ("" = none)
    \* ---- generate_figure_list / on_template_select
    data,           \* the Template's dataframe
    lim_plot,       \* the Template's limits_and_plot_template
    figures,        \* list returned by generate_figure_list
    fig_exc,        \* exception raised by generate_figure_list ("" = none)
    titles,         \* the title column of the table of on_template_select
    select_exc      \* exception raised by on_template_select after the figures

vars == <<pc, input_file, decimal_mark, client, csv_result,
          paramsets, lim_plots, auto_no, mod, mods_done,
          param_labels, decimarks, lim_labels, modality_dict, temp, appended,
          used_decimal, n_steps, n_eligible, n_unreadable, n_broken, loaded_mods, raised,
          data, lim_plot, figures, fig_exc, titles, select_exc>>

parser_vars == <<input_file, decimal_mark, csv_result>>
agg_vars == <<paramsets, lim_plots, auto_no, mod, mods_done,
              param_labels, decimarks, lim_labels, modality_dict, temp, appended,
              used_decimal, n_steps, n_eligible, n_unreadable, n_broken, loaded_mods,
              raised>>
fig_vars == <<data, lim_plot, figures, fig_exc, titles, select_exc>>

(***************************************************************************)
(* Bounds of the model.                                                    *)
(***************************************************************************)
MaxCols == 3        \* columns of a result file header (date + channels)
MaxRows == 3        \* data rows of a result file
MaxTemplates == 2   \* loop bodies of one aggregation pass
MaxVal == 2         \* largest sample value / limit value drawn
MaxDay == 3         \* days of a month in the calendar of the model
FigRows == 2        \* rows of a dataframe handed to generate_figure_list
MaxPct == 50        \* largest percentage of a relative limit

Min(a, b) == IF a <= b THEN a ELSE b

RECURSIVE SeqsUpTo(_, _)
\* all sequences over S of length 0..n
SeqsUpTo(S, n) ==
    IF n = 0 THEN {<<>>}
    ELSE LET shorter == SeqsUpTo(S, n - 1)
         IN shorter \cup {Append(s, x) : s \in {t \in shorter : Len(t) = n - 1}, x \in S}

(***************************************************************************)
(* Result files.  A file is a header line of `header` tab separated names  *)
(* and data lines of tab separated cells.  A raw cell is text:             *)
(*   empty        nothing between two tabs                                 *)
(*   date         dd.mm text, v = 100*dd + mm                              *)
(*   num          a number v, written with decimal mark `mark`             *)
(*                ("none": no decimal mark in the text)                    *)
(*   text         anything else                                            *)
(***************************************************************************)
EmptyCell == [k |-> "empty", v |-> 0, mark |-> "none"]
RawDate(dd, mm) == [k |-> "date", v |-> 100 * dd + mm, mark |-> "none"]
RawNum(n, m) == [k |-> "num", v |-> n, mark |-> m]
RawText == [k |-> "text", v |-> 0, mark |-> "none"]

\* parsed cells of a dataframe
NaN == [k |-> "nan", v |-> 0]
NaT == [k |-> "nat", v |-> 0]
Num(n) == [k |-> "num", v |-> n]
Str(n) == [k |-> "str", v |-> n]
Date(n) == [k |-> "date", v |-> n]

NoFrame == [isNone |-> TRUE, ncols |-> 0, rows |-> <<>>]

\* a line of ragged width w in data line i: a date and numbers
PatternRow(i, w) ==
    [j \in 1..w |-> IF j = 1 THEN RawDate(i, 1) ELSE RawNum(Min(i + j - 2, MaxVal), ".")]

\* widths a data line may have: one short of the header up to one field too many;
\* the first data line is never wider than the header (pandas would take its
\* leading fields as an index, a file layout the producing tool never writes)
RaggedWidths(h) ==
    {w \in SeqsUpTo(1..(h + 1), MaxRows) : Len(w) > 0 => w[1] <= h}

RaggedFiles ==
    UNION {{[kind |-> "ok", header |-> h,
             rows |-> [i \in 1..Len(ws) |-> PatternRow(i, ws[i])]] :
                ws \in RaggedWidths(h)} : h \in 2..MaxCols}

SpecialFiles ==
    {[kind |-> k, header |-> 2, rows |-> <<PatternRow(1, 2), PatternRow(2, 2)>>] :
        k \in {"missing", "unreadable", "empty", "malquoted"}}

Files == RaggedFiles \cup SpecialFiles

(***************************************************************************)
(* pandas.read_csv(sep='\t', decimal=decimal_mark, parse_dates=[0],        *)
(* dayfirst=True, on_bad_lines='error', usecols=...)                       *)
(***************************************************************************)
IsBlankLine(row) == Len(row) = 1 /\ row[1].k = "empty"

\* the tokenizer pads short lines and, with usecols, cuts long ones
FitRow(row, n) == [j \in 1..n |-> IF j <= Len(row) THEN row[j] ELSE EmptyCell]

\* parse_dates with dayfirst: dd.mm -> day number MaxDay*(mm-1) + dd
ParseDate(c) == Date(MaxDay * ((c.v % 100) - 1) + (c.v \div 100))

\* column 0: converted to dates only when every filled cell is a date;
\* otherwise the column stays text (object dtype)
DateColumnOK(rows) == \A i \in 1..Len(rows) : rows[i][1].k \in {"empty", "date"}

ConvertDateCell(c, colOK) ==
    IF c.k = "empty" THEN (IF colOK THEN NaT ELSE NaN)
    ELSE IF colOK THEN ParseDate(c)
    ELSE Str(c.v)

\* a value column is numeric only when every filled cell is a number written
\* with the decimal mark of the call (or none); otherwise it stays text
NumColumnOK(rows, j, dm) ==
    \A i \in 1..Len(rows) :
        \/ rows[i][j].k = "empty"
        \/ rows[i][j].k = "num" /\ rows[i][j].mark \in {"none", dm}

ConvertNumCell(c, colOK) ==
    IF c.k = "empty" THEN NaN
    ELSE IF colOK THEN Num(c.v)
    ELSE Str(c.v)

MakeFrame(lines, n, dm) ==
    LET fit == [i \in 1..Len(lines) |-> FitRow(lines[i], n)]
        dOK == DateColumnOK(fit)
    IN [isNone |-> FALSE, ncols |-> n,
        rows |-> [i \in 1..Len(fit) |->
                    [idx |-> i - 1,
                     cells |-> [j \in 1..n |->
                                  IF j = 1 THEN ConvertDateCell(fit[i][1], dOK)
                                  ELSE ConvertNumCell(fit[i][j], NumColumnOK(fit, j, dm))]]]]

\* usecols = 0 stands for "no usecols argument"
\* returns [exc, dataframe]; exc = "" when the call returned
pd_read_csv(file, dm, usecols) ==
    CASE file.kind = "missing" -> [exc |-> "FileNotFoundError", dataframe |-> NoFrame]
      [] file.kind = "unreadable" -> [exc |-> "OSError", dataframe |-> NoFrame]
      [] file.kind = "empty" -> [exc |-> "EmptyDataError", dataframe |-> NoFrame]
      [] file.kind = "malquoted" -> [exc |-> "ParserError", dataframe |-> NoFrame]
      [] OTHER ->
            LET lines == SelectSeq(file.rows, LAMBDA r : ~IsBlankLine(r))
                tooMany == \E i \in 2..Len(lines) : Len(lines[i]) > file.header
            IN IF usecols = 0 /\ tooMany
               THEN [exc |-> "ParserError", dataframe |-> NoFrame]
               ELSE [exc |-> "",
                     dataframe |-> MakeFrame(lines, IF usecols = 0 THEN file.header
                                                    ELSE usecols, dm)]

(***************************************************************************)
(* read_csv(path, decimal_mark, client)                                    *)
(* returns [exc, status, dataframe, via]; exc # "" when the call raised;   *)
(* via names the branch that produced the result                           *)
(***************************************************************************)
Returned(st, df, branch) == [exc |-> "", status |-> st, dataframe |-> df, via |-> branch]
Raised(e, branch) == [exc |-> e, status |-> FALSE, dataframe |-> NoFrame, via |-> branch]

\* minimum index.size for status True: dataframe.index.size > 1
MinRowsOne(df) == Len(df.rows) > 0
MinRows(df) == Len(df.rows) > 1

\* the except pd.errors.ParserError branch
read_csv_fallback_one_less(file, dm, cl) ==
    IF cl # "none"
    THEN Raised("TypeError", "fallback")
    ELSE LET n_headers == file.header - 1
         IN IF n_headers > 0
            THEN LET retry == pd_read_csv(file, dm, n_headers)
                 IN IF retry.exc # ""
                    THEN Returned(FALSE, NoFrame, "fallback")
                    ELSE Returned(MinRows(retry.dataframe), retry.dataframe, "fallback")
            ELSE Returned(FALSE, NoFrame, "fallback")
read_csv_fallback(file, dm, cl) ==
    IF cl # "none"
    THEN Raised("TypeError", "fallback")     \* open(io.StringIO): not a path
    ELSE LET n_headers == file.header        \* len(first_line.split('\t'))
         IN IF n_headers > 0
            THEN LET retry == pd_read_csv(file, dm, n_headers)
                 IN IF retry.exc # ""
                    THEN Returned(FALSE, NoFrame, "fallback")   \* except Exception
                    ELSE Returned(MinRows(retry.dataframe), retry.dataframe, "fallback")
            ELSE Returned(FALSE, NoFrame, "fallback")

read_csv(file, dm, cl) ==
    IF cl # "none" /\ file.kind \in {"missing", "unreadable"}
    THEN Raised("S3Error", "get_object")     \* client.get_object, outside the try
    ELSE LET first == pd_read_csv(file, dm, 0)
         IN CASE first.exc = "" ->
                    Returned(MinRows(first.dataframe), first.dataframe, "strict")
              [] first.exc \in {"FileNotFoundError", "OSError", "EmptyDataError"} ->
                    Returned(FALSE, NoFrame, "except")
              [] OTHER -> read_csv_fallback(file, dm, cl)

(***************************************************************************)
(* Configuration.  An entry of auto_templates.yaml carries every key read  *)
(* by get_data; an entry of auto_vendor_templates.yaml has no import_only, *)
(* paramset_label or quicktemp_label key (reading one is a KeyError).      *)
(***************************************************************************)
Mods == {"CT", "SR"}

\* the result files of the file system / bucket, by path_output
FileAt(path) ==
    CASE path = "res_ok" ->
            [kind |-> "ok", header |-> 3,
             rows |-> <<<<RawDate(2, 1), RawNum(1, "none"), RawNum(2, "none")>>,
                        <<RawDate(1, 1), RawNum(0, "none"), RawNum(2, "none")>>,
                        <<RawDate(1, 2), RawNum(2, "none"), EmptyCell>>>>]
      [] path = "res_one_row" ->
            [kind |-> "ok", header |-> 2,
             rows |-> <<<<RawDate(1, 1), RawNum(1, "none")>>>>]
      [] path = "res_ragged" ->
            [kind |-> "ok", header |-> 2,
             rows |-> <<<<RawDate(1, 1), RawNum(1, "none")>>,
                        <<RawDate(2, 1), RawNum(2, "none"), RawNum(0, "none")>>>>]
      [] path = "res_input" -> input_file       \* the file SpecLoad draws
      [] OTHER -> [kind |-> "missing", header |-> 2, rows |-> <<>>]

Paths == {"", "res_ok", "res_one_row", "res_ragged", "res_missing"}

PrimaryKeys == {"label", "path_output", "active", "import_only",
                "paramset_label", "quicktemp_label", "limits_and_plot_label"}
VendorKeys == {"label", "path_output", "active", "limits_and_plot_label"}

Entry(ks, lb, po, ac, io, pl, ql, ll) ==
    [keys |-> ks, label |-> lb, path_output |-> po, active |-> ac,
     import_only |-> io, paramset_label |-> pl, quicktemp_label |-> ql,
     limits_and_plot_label |-> ll]

NoEntry == Entry({}, "", "", FALSE, FALSE, "", "", "")

PrimaryEntries ==
    {Entry(PrimaryKeys, lb, po, ac, io, pl, ql, ll) :
        lb \in {"", "T"}, po \in Paths, ac \in BOOLEAN, io \in BOOLEAN,
        pl \in {"", "P2", "PX"}, ql \in {"", "Q1"}, ll \in {"", "L1", "LX"}}

VendorEntries ==
    {Entry(VendorKeys, lb, po, ac, FALSE, "", "", ll) :
        lb \in {"", "V"}, po \in Paths, ac \in BOOLEAN, ll \in {"", "L1", "LX"}}

(***************************************************************************)
(* Python values of a limits_and_plot_template: None, a number, a string.  *)
(***************************************************************************)
PyNone == [k |-> "none", v |-> 0, s |-> ""]
PyNum(n) == [k |-> "num", v |-> n, s |-> ""]
PyStr(t) == [k |-> "str", v |-> 0, s |-> t]

\* bool(x)
Truthy(x) ==
    CASE x.k = "none" -> FALSE
      [] x.k = "num" -> x.v # 0
      [] OTHER -> x.s # ""

\* a float: "none" (Python None), "nan" or the rational num/den, den > 0
NoBound == [k |-> "none", num |-> 0, den |-> 1]
NanBound == [k |-> "nan", num |-> 0, den |-> 1]
Rat(n, d) == [k |-> "rat", num |-> n, den |-> d]

\* a limits_and_plot_template; `keys` are the keys the dict holds
LimTemplate(ks, lb, gr, hi, li, ra, ti) ==
    [keys |-> ks, label |-> lb, groups |-> gr, groups_hide |-> hi,
     groups_limits |-> li, groups_ranges |-> ra, groups_title |-> ti]

\* {'groups': [[col] for col in dataframe.columns[1:]]}
DefaultLimTemplateAllInOne(df) ==
    LimTemplate({"groups"}, "", <<[j \in 1..(df.ncols - 1) |-> j + 1]>>,
                <<>>, <<>>, <<>>, <<>>)
DefaultLimTemplate(df) ==
    LimTemplate({"groups"}, "", [j \in 1..(df.ncols - 1) |-> <<j + 1>>],
                <<>>, <<>>, <<>>, <<>>)

(***************************************************************************)
(* generate_figure_list(data, lim_plots)                                   *)
(***************************************************************************)
Column(df, j) == [i \in 1..Len(df.rows) |-> df.rows[i].cells[j]]

\* go.Scatter(x=..., y=..., name=header, mode=...)
Scatter(rows, header, m) ==
    [name |-> header, mode |-> m,
     x |-> [i \in 1..Len(rows) |-> rows[i].cells[1]],
     y |-> [i \in 1..Len(rows) |-> rows[i].cells[header]]]

Placeholder ==      \* fig = ''
    [kind |-> "str", traces |-> <<>>, hlines |-> <<>>,
     range |-> <<NoBound, NoBound>>, autorange |-> "unset"]

\* value < lim, value > lim on a float column: NaN compares False
Below(c, lim) == c.k = "num" /\ lim.k = "rat" /\ c.v * lim.den < lim.num
Above(c, lim) == c.k = "num" /\ lim.k = "rat" /\ c.v * lim.den > lim.num
BelowOrEqual(c, lim) == c.k = "num" /\ lim.k = "rat" /\ c.v * lim.den <= lim.num

\* data[data[header] < lim] (limno 0), data[data[header] > lim] (limno 1)
DataOffInclusive(df, header, limno, lim) ==
    SelectSeq(df.rows, LAMBDA r : IF limno = 0 THEN BelowOrEqual(r.cells[header], lim)
                                  ELSE Above(r.cells[header], lim))
DataOff(df, header, limno, lim) ==
    SelectSeq(df.rows, LAMBDA r : IF limno = 0 THEN Below(r.cells[header], lim)
                                  ELSE Above(r.cells[header], lim))

RECURSIVE InsertSorted(_, _)
InsertSorted(s, x) ==
    IF s = <<>> THEN <<x>>
    ELSE IF x < Head(s) THEN <<x>> \o s
    ELSE <<Head(s)>> \o InsertSorted(Tail(s), x)

RECURSIVE SortInts(_)
SortInts(s) == IF s = <<>> THEN <<>> ELSE InsertSorted(SortInts(Tail(s)), Head(s))

\* np.median of a float column: nan when empty or holding a NaN
Median(cells) ==
    IF cells = <<>> \/ \E i \in 1..Len(cells) : cells[i].k # "num"
    THEN NanBound
    ELSE LET srt == SortInts([i \in 1..Len(cells) |-> cells[i].v])
             n == Len(srt)
         IN IF n % 2 = 1 THEN Rat(srt[(n + 1) \div 2], 1)
            ELSE Rat(srt[n \div 2] + srt[n \div 2 + 1], 2)

\* ref - ref * 0.01 * p  and  ref + ref * 0.01 * p
RelativeLims(ref, p) ==
    IF ref.k # "rat" THEN <<NanBound, NanBound>>
    ELSE <<Rat(ref.num * (100 - p), ref.den * 100),
           Rat(ref.num * (100 + p), ref.den * 100)>>

\* rows whose index label is 0: data[header][0] is a lookup by label
LabelZero(df) == SelectSeq(df.rows, LAMBDA r : r.idx = 0)

PyToBound(x) == IF x.k = "num" THEN Rat(x.v, 1) ELSE NoBound

\* np.median(data[header][:-1]): the column without its last sample
MedianReferenceWholeColumn(df, header) == Median(Column(df, header))
MedianReference(df, header) ==
    LET col == Column(df, header) IN Median(SubSeq(col, 1, Len(col) - 1))

\* the isinstance(lims[0], str) cascade: [exc, lims, lim_text]
ResolveLims(df, header, lims) ==
    IF lims[1].k = "str"
    THEN CASE lims[1].s = "text" ->
                [exc |-> "", lims |-> <<NoBound, NoBound>>,
                 lim_text |-> <<PyNone, PyNone>>]
           [] lims[1].s = "relative_first" ->
                IF LabelZero(df) = <<>>
                THEN [exc |-> "KeyError", lims |-> <<NoBound, NoBound>>,
                      lim_text |-> <<PyNone, PyNone>>]
                ELSE LET c == LabelZero(df)[1].cells[header]
                         first_val == IF c.k = "num" THEN Rat(c.v, 1) ELSE NanBound
                     IN [exc |-> "", lims |-> RelativeLims(first_val, lims[2].v),
                         lim_text |-> <<[pre |-> "first +/- %", arg |-> lims[2]],
                                        [pre |-> "", arg |-> PyNone]>>]
           [] OTHER ->
                LET med_val == MedianReference(df, header)
                IN [exc |-> "", lims |-> RelativeLims(med_val, lims[2].v),
                    lim_text |-> <<[pre |-> "median +/- %", arg |-> lims[2]],
                                   [pre |-> "", arg |-> PyNone]>>]
    ELSE [exc |-> "", lims |-> <<PyToBound(lims[1]), PyToBound(lims[2])>>,
          lim_text |-> <<[pre |-> "min", arg |-> lims[1]],
                         [pre |-> "max", arg |-> lims[2]]>>]

\* if 'groups_limits' in lim_plots: if any(lim_plots['groups_limits'][group_idx])
LimitsEvaluated(lp, g) ==
    /\ "groups_limits" \in lp.keys
    /\ Truthy(lp.groups_limits[g][1]) \/ Truthy(lp.groups_limits[g][2])

\* the red marker traces of one limit: one per channel with a sample off limit
OffTraces(df, group, limno, lim) ==
    LET one(h) == LET off == DataOff(df, h, limno, lim)
                  IN IF Len(off) > 0 THEN <<Scatter(off, h, "markers")>> ELSE <<>>
        F[n \in 0..Len(group)] ==
            IF n = 0 THEN <<>> ELSE F[n - 1] \o one(group[n])
    IN F[Len(group)]

\* the for limno, lim in enumerate(lims) loop: [hlines, traces]
LimitLoop(df, group, res) ==
    LET yanchors == <<"bottom", "top">>
        F[n \in 0..2] ==
            IF n = 0 THEN [hlines |-> <<>>, traces |-> <<>>]
            ELSE IF res.lims[n].k = "none" THEN F[n - 1]
            ELSE [hlines |-> Append(F[n - 1].hlines,
                                    [y |-> res.lims[n], text |-> res.lim_text[n],
                                     yanchor |-> yanchors[n]]),
                  traces |-> F[n - 1].traces \o OffTraces(df, group, n - 1, res.lims[n])]
    IN F[2]

\* the groups_ranges branch: [range, autorange]
AxisRangeSwapped(lp, g) ==
    IF "groups_ranges" \in lp.keys
    THEN LET set_range == lp.groups_ranges[g]
         IN [range |-> <<PyToBound(set_range[1]), PyToBound(set_range[2])>>,
             autorange |->
                CASE set_range[1].k = "none" /\ set_range[2].k = "none" -> "True"
                  [] set_range[1].k # "none" /\ set_range[2].k # "none" -> "False"
                  [] set_range[1].k = "none" /\ set_range[2].k # "none" -> "max"
                  [] OTHER -> "min"]
    ELSE [range |-> <<NoBound, NoBound>>, autorange |-> "True"]
AxisRange(lp, g) ==
    IF "groups_ranges" \in lp.keys
    THEN LET set_range == lp.groups_ranges[g]
         IN [range |-> <<PyToBound(set_range[1]), PyToBound(set_range[2])>>,
             autorange |->
                CASE set_range[1].k = "none" /\ set_range[2].k = "none" -> "True"
                  [] set_range[1].k # "none" /\ set_range[2].k # "none" -> "False"
                  [] set_range[1].k = "none" /\ set_range[2].k # "none" -> "min"
                  [] OTHER -> "max"]
    ELSE [range |-> <<NoBound, NoBound>>, autorange |-> "True"]

\* fig.update_yaxes(range=set_range, autorange=autorange): the ends of the
\* axis the figure shows, NoBound for an end plotly computes from the data.
\* True computes both ends, False none, "min" only the lower, "max" only the
\* upper end; the other end is taken from range
AxisEnds(fig) ==
    <<IF fig.autorange \in {"True", "min"} THEN NoBound ELSE fig.range[1],
      IF fig.autorange \in {"True", "max"} THEN NoBound ELSE fig.range[2]>>

\* one pass of the for group_idx, group loop: [exc, fig]
FigureOfGroup(df, lp, g) ==
    LET group == lp.groups[g]
        hide == IF "groups_hide" \in lp.keys THEN lp.groups_hide[g] ELSE FALSE
        lines == [n \in 1..Len(group) |-> Scatter(df.rows, group[n], "lines+markers")]
        header == group[Len(group)]     \* the loop variable after the trace loop
    IN IF hide THEN [exc |-> "", fig |-> Placeholder]
       ELSE LET res == IF LimitsEvaluated(lp, g)
                       THEN ResolveLims(df, header, lp.groups_limits[g])
                       ELSE [exc |-> "", lims |-> <<NoBound, NoBound>>,
                             lim_text |-> <<PyNone, PyNone>>]
                ll == LimitLoop(df, group, res)
                ax == AxisRange(lp, g)
            IN [exc |-> res.exc,
                fig |-> [kind |-> "figure", traces |-> lines \o ll.traces,
                         hlines |-> ll.hlines, range |-> ax.range,
                         autorange |-> ax.autorange]]

\* [exc, figures]; exc # "" when a group raised (nothing is returned)
generate_figure_list(df, lp) ==
    LET per == [g \in 1..Len(lp.groups) |-> FigureOfGroup(df, lp, g)]
    IN IF \E g \in 1..Len(per) : per[g].exc # ""
       THEN [exc |-> per[CHOOSE g \in 1..Len(per) :
                            /\ per[g].exc # ""
                            /\ \A g2 \in 1..(g - 1) : per[g2].exc = ""].exc,
             figures |-> <<>>]
       ELSE [exc |-> "", figures |-> [g \in 1..Len(per) |-> per[g].fig]]

(***************************************************************************)
(* on_template_select(modality_value, template_value): the title column    *)
(* and the figures of the table shown for the selected Template            *)
(***************************************************************************)
\* an entry of the title column: a title string, or (titles = groups) a group
TitleItem(t) == [title |-> t, group |-> <<>>]
GroupItem(gr) == [title |-> "", group |-> gr]

\* titles of the groups whose hide flag is False, in order
RECURSIVE VisibleTitles(_, _)
VisibleTitles(ti, hi) ==
    IF ti = <<>> THEN <<>>
    ELSE (IF hi[1] = FALSE THEN <<TitleItem(ti[1])>> ELSE <<>>)
         \o VisibleTitles(Tail(ti), Tail(hi))

\* the try / except KeyError around the list comprehension
SelectTitles(lp) ==
    CASE "groups_title" \notin lp.keys ->
            [i \in 1..Len(lp.groups) |-> GroupItem(lp.groups[i])]
      [] lp.groups_title = <<>> -> <<>>
      [] "groups_hide" \notin lp.keys ->
            [i \in 1..Len(lp.groups) |-> GroupItem(lp.groups[i])]
      [] OTHER -> VisibleTitles(lp.groups_title, lp.groups_hide)

\* for i, r in df.iterrows(): fig = figures[i]; fig.update_layout(...)
SelectLoop(n_rows, figs) ==
    CASE \E i \in 1..n_rows : i <= Len(figs) /\ figs[i].kind = "str"
                                /\ \A j \in 1..(i - 1) : j <= Len(figs)
                -> "AttributeError"
      [] n_rows > Len(figs) -> "IndexError"
      [] OTHER -> ""

\* [titles, figures, fig_exc, select_exc]
on_template_select(df, lp) ==
    LET ts == SelectTitles(lp)
        r == generate_figure_list(df, lp)
    IN [titles |-> ts, figures |-> r.figures, fig_exc |-> r.exc,
        select_exc |-> IF r.exc # "" THEN "" ELSE SelectLoop(Len(ts), r.figures)]

(***************************************************************************)
(* get_data(config_path, client)                                           *)
(***************************************************************************)
\* date.today(), as a day number of the model calendar
Today == MaxDay * MaxDay

\* dataframe.dropna(how='all'): a row goes when every cell of it is missing
AllMissing(r) == \A j \in 1..Len(r.cells) : r.cells[j].k \in {"nan", "nat"}
dropna(df) == [df EXCEPT !.rows = SelectSeq(df.rows, LAMBDA r : ~AllMissing(r))]

\* sort_values(by=[date_header]): ascending, missing dates last, ties keep order
DateBefore(a, b) ==
    /\ a.k \notin {"nan", "nat"}
    /\ b.k \in {"nan", "nat"} \/ a.v < b.v

RECURSIVE InsertRow(_, _)
InsertRow(s, r) ==
    IF s = <<>> THEN <<r>>
    ELSE IF DateBefore(r.cells[1], Head(s).cells[1]) THEN <<r>> \o s
    ELSE <<Head(s)>> \o InsertRow(Tail(s), r)

RECURSIVE SortRows(_)
SortRows(rows) ==
    IF rows = <<>> THEN <<>>
    ELSE InsertRow(SortRows(SubSeq(rows, 1, Len(rows) - 1)), rows[Len(rows)])

sort_values(df) == [df EXCEPT !.rows = SortRows(df.rows)]

\* newest_date and days_since: [exc, newest_date, days_since]
Freshness(df) ==
    LET first_row_val == IF df.rows = <<>> THEN Str(0)      \* IndexError: ''
                         ELSE df.rows[Len(df.rows)].cells[1]
    IN CASE first_row_val.k = "str" ->
                [exc |-> "", newest_date |-> "error", days_since |-> -1000]
         [] first_row_val.k = "date" ->
                [exc |-> "", newest_date |-> ToString(first_row_val.v),
                 days_since |-> Today - first_row_val.v]
         [] first_row_val.k = "nan" ->      \* a float has no date()
                [exc |-> "AttributeError", newest_date |-> "", days_since |-> 0]
         [] OTHER ->                        \* date.today() - NaT is a TypeError
                [exc |-> "TypeError", newest_date |-> "", days_since |-> 0]

Template(lb, lt, df, nd, ds) ==
    [label |-> lb, limits_and_plot_template |-> lt, data |-> df,
     newest_date |-> nd, days_since |-> ds]

\* list.index(x): 0 when x is not in the list (ValueError), else the first place
IndexOf(seq, x) ==
    IF \E i \in 1..Len(seq) : seq[i] = x
    THEN CHOOSE i \in 1..Len(seq) : seq[i] = x /\ \A j \in 1..(i - 1) : seq[j] # x
    ELSE 0

Keys(md) == {md[i].mod : i \in 1..Len(md)}
TemplatesOf(md, m) == md[CHOOSE i \in 1..Len(md) : md[i].mod = m].templates
CountTemplates(md) ==
    LET F[n \in 0..Len(md)] == IF n = 0 THEN 0 ELSE F[n - 1] + Len(md[n].templates)
    IN F[Len(md)]

\* the three all([...]) conditions and the try block behind them
GateNoImportOnly(e) ==
    /\ e.label # "" /\ e.path_output # "" /\ e.active
    /\ CASE "paramset_label" \notin e.keys -> TRUE
         [] e.paramset_label = "" -> FALSE
         [] "quicktemp_label" \notin e.keys -> TRUE
         [] OTHER -> e.quicktemp_label # ""
Gate(e) ==
    /\ e.label # "" /\ e.path_output # "" /\ e.active
    /\ CASE "import_only" \notin e.keys -> TRUE       \* KeyError: pass
         [] e.import_only -> FALSE
         [] "paramset_label" \notin e.keys -> TRUE
         [] e.paramset_label = "" -> FALSE
         [] "quicktemp_label" \notin e.keys -> TRUE
         [] OTHER -> e.quicktemp_label # ""

\* create_empty and the lookup of lim_label in lim_labels
ResolveLimTemplate(e, m, labels, lp, df) ==
    IF e.limits_and_plot_label # "" /\ IndexOf(labels, e.limits_and_plot_label) > 0
    THEN lp[m][IndexOf(labels, e.limits_and_plot_label)]
    ELSE DefaultLimTemplate(df)

\* the decimal mark handed to read_csv: "" when param_labels.index raises
DecimalFor(e, no, plabels, dmarks) ==
    IF no = 0
    THEN IF IndexOf(plabels, e.paramset_label) = 0 THEN ""
         ELSE dmarks[IndexOf(plabels, e.paramset_label)]
    ELSE dmarks[1]

\* the body of "for temp in template_list":
\* [exc, appended, template, decimal]
LoopBodyResult(e, no, m, plabels, dmarks, labels, lp, cl) ==
    LET none == [exc |-> "", appended |-> FALSE, decimal |-> "",
                 template |-> Template("", DefaultLimTemplate(NoFrame), NoFrame, "", 0)]
    IN IF ~Gate(e) THEN none
       ELSE LET dm == DecimalFor(e, no, plabels, dmarks)
            IN IF dm = "" THEN [none EXCEPT !.exc = "ValueError"]
               ELSE LET r == read_csv(FileAt(e.path_output), dm, cl)
                    IN IF r.exc # "" THEN [none EXCEPT !.exc = r.exc, !.decimal = dm]
                       ELSE IF ~r.status THEN [none EXCEPT !.decimal = dm]
                       ELSE LET df == sort_values(dropna(r.dataframe))
                                fr == Freshness(df)
                            IN IF fr.exc # ""
                               THEN [none EXCEPT !.exc = fr.exc, !.decimal = dm]
                               ELSE [exc |-> "", appended |-> TRUE, decimal |-> dm,
                                     template |->
                                        Template(e.label,
                                                 ResolveLimTemplate(e, m, labels, lp, df),
                                                 df, fr.newest_date, fr.days_since)]

\* "remove empty modality from list dict"
Pop(md, key) == SelectSeq(md, LAMBDA x : x.mod # key)

RECURSIVE PruneLoop(_, _, _, _, _)
PruneLoop(md, len_temp_lists, mods_orig, i, n) ==
    IF i >= n THEN md
    ELSE PruneLoop(IF len_temp_lists[Len(len_temp_lists) - i] = 0
                   THEN Pop(md, mods_orig[Len(mods_orig) - i])
                   ELSE md,
                   len_temp_lists, mods_orig, i + 1, n)

PruneSkipFirst(md) ==
    PruneLoop(md, [i \in 1..Len(md) |-> Len(md[i].templates)],
              [i \in 1..Len(md) |-> md[i].mod], 0, Len(md) - 1)
Prune(md) ==
    PruneLoop(md, [i \in 1..Len(md) |-> Len(md[i].templates)],
              [i \in 1..Len(md) |-> md[i].mod], 0, Len(md))

(***************************************************************************)
(* Initial values of the parts a specification does not run.               *)
(***************************************************************************)
ParserIdle ==
    /\ input_file = FileAt("res_missing")
    /\ decimal_mark = "."
    /\ csv_result = Returned(FALSE, NoFrame, "none")

AggIdle ==
    /\ paramsets = [m \in {"CT", "Xray"} |-> <<>>]
    /\ lim_plots = [m \in {} |-> <<>>]
    /\ auto_no = 0 /\ mod = "" /\ mods_done = {}
    /\ param_labels = <<>> /\ decimarks = <<>> /\ lim_labels = <<>>
    /\ modality_dict = <<>>
    /\ temp = NoEntry /\ appended = FALSE /\ used_decimal = ""
    /\ n_steps = 0 /\ n_eligible = 0 /\ n_unreadable = 0 /\ n_broken = 0
    /\ loaded_mods = {}
    /\ raised = ""

FigIdle ==
    /\ data = NoFrame
    /\ lim_plot = DefaultLimTemplate(NoFrame)
    /\ figures = <<>>
    /\ fig_exc = ""
    /\ titles = <<>>
    /\ select_exc = ""

(***************************************************************************)
(* SpecParser: read_csv on every file of Files, both backends.             *)
(***************************************************************************)
InitParser ==
    /\ pc = "read_csv"
    /\ input_file \in Files
    /\ decimal_mark \in {".", ","}
    /\ client \in {"none", "minio"}
    /\ csv_result = Returned(FALSE, NoFrame, "none")
    /\ AggIdle /\ FigIdle

DoReadCsv ==
    /\ pc = "read_csv"
    /\ csv_result' = read_csv(input_file, decimal_mark, client)
    /\ pc' = "returned"
    /\ UNCHANGED <<input_file, decimal_mark, client, agg_vars, fig_vars>>

NextParser == DoReadCsv

SpecParser == InitParser /\ [][NextParser]_vars

(***************************************************************************)
(* Spec: one aggregation pass, get_data, over a configuration that is read *)
(* entry by entry.                                                         *)
(***************************************************************************)
\* limits_and_plot_templates.yaml: one template L1 for CT, none for Xray,
\* no SR key
LimL1 ==
    LimTemplate({"label", "groups", "groups_hide", "groups_limits",
                 "groups_ranges", "groups_title"},
                "L1", <<<<2>>>>, <<FALSE>>, <<<<PyNum(1), PyNone>>>>,
                <<<<PyNone, PyNone>>>>, <<"first channel">>)

Init ==
    /\ pc = "loop"
    /\ client \in {"none", "minio"}
    /\ paramsets \in {[m \in {"CT", "Xray"} |->
                          IF m = "CT" THEN ct
                          ELSE <<[label |-> "P2", decimal_mark |-> "."]>>] :
                      ct \in {<<>>, <<[label |-> "P1", decimal_mark |-> "."],
                                      [label |-> "P2", decimal_mark |-> ","]>>}}
    /\ lim_plots = [m \in {"CT", "Xray"} |-> IF m = "CT" THEN <<LimL1>> ELSE <<>>]
    /\ auto_no = 0 /\ mod = "" /\ mods_done = {}
    /\ param_labels = <<>> /\ decimarks = <<>> /\ lim_labels = <<>>
    /\ modality_dict = <<>>
    /\ temp = NoEntry /\ appended = FALSE /\ used_decimal = ""
    /\ n_steps = 0 /\ n_eligible = 0 /\ n_unreadable = 0 /\ n_broken = 0
    /\ loaded_mods = {}
    /\ raised = ""
    /\ ParserIdle /\ FigIdle

\* the head of "for mod, template_list in template.items()"
BeginModality(m) ==
    /\ pc = "loop"
    /\ m \notin mods_done
    /\ mod' = m
    /\ mods_done' = mods_done \cup {m}
    /\ modality_dict' = IF m \in Keys(modality_dict) THEN modality_dict
                        ELSE Append(modality_dict, [mod |-> m, templates |-> <<>>])
    /\ lim_labels' = IF m \in DOMAIN lim_plots
                     THEN [i \in 1..Len(lim_plots[m]) |-> lim_plots[m][i].label]
                     ELSE <<>>                                   \* KeyError: pass
    /\ IF auto_no = 0 /\ m # "SR"
       THEN IF m \in DOMAIN paramsets
            THEN /\ param_labels' = [i \in 1..Len(paramsets[m]) |-> paramsets[m][i].label]
                 /\ decimarks' = [i \in 1..Len(paramsets[m]) |->
                                    paramsets[m][i].decimal_mark]
                 /\ UNCHANGED <<pc, raised>>
            ELSE /\ pc' = "raised" /\ raised' = "KeyError"
                 /\ param_labels' = <<>> /\ decimarks' = <<>>
       ELSE IF paramsets["CT"] # <<>>
            THEN /\ param_labels' = <<>>
                 /\ decimarks' = <<paramsets["CT"][1].decimal_mark>>
                 /\ UNCHANGED <<pc, raised>>
            ELSE /\ pc' = "raised" /\ raised' = "IndexError"
                 /\ param_labels' = <<>> /\ decimarks' = <<>>
    /\ temp' = NoEntry /\ appended' = FALSE /\ used_decimal' = ""
    /\ UNCHANGED <<client, paramsets, lim_plots, auto_no, n_steps, n_eligible,
                   n_unreadable, n_broken, loaded_mods, parser_vars, fig_vars>>

AppendTemplate(md, m, t) ==
    [i \in 1..Len(md) |-> IF md[i].mod = m
                          THEN [md[i] EXCEPT !.templates = Append(@, t)]
                          ELSE md[i]]

\* one pass of "for temp in template_list"
LoopBody(e) ==
    /\ pc = "loop"
    /\ mod # ""
    /\ n_steps < MaxTemplates
    /\ LET r == LoopBodyResult(e, auto_no, mod, param_labels, decimarks,
                               lim_labels, lim_plots, client)
           there == FileAt(e.path_output).kind \notin {"missing", "unreadable"}
       IN /\ temp' = e
          /\ appended' = r.appended
          /\ used_decimal' = r.decimal
          /\ n_steps' = n_steps + 1
          /\ n_eligible' = n_eligible + (IF Gate(e) THEN 1 ELSE 0)
          /\ n_unreadable' = n_unreadable + (IF Gate(e) /\ ~there THEN 1 ELSE 0)
          /\ n_broken' = n_broken + (IF Gate(e) /\ there /\ ~r.appended THEN 1 ELSE 0)
          /\ IF r.exc # ""
             THEN /\ pc' = "raised" /\ raised' = r.exc
                  /\ UNCHANGED <<modality_dict, loaded_mods>>
             ELSE /\ pc' = "next_temp"
                  /\ UNCHANGED raised
                  /\ IF r.appended
                     THEN /\ modality_dict' = AppendTemplate(modality_dict, mod, r.template)
                          /\ loaded_mods' = loaded_mods \cup {mod}
                     ELSE UNCHANGED <<modality_dict, loaded_mods>>
    /\ UNCHANGED <<client, paramsets, lim_plots, auto_no, mod, mods_done,
                   param_labels, decimarks, lim_labels, parser_vars, fig_vars>>

\* the for statement takes the next entry of template_list, or finds none
NextTemp ==
    /\ pc = "next_temp"
    /\ pc' = "loop"
    /\ temp' = NoEntry /\ appended' = FALSE /\ used_decimal' = ""
    /\ UNCHANGED <<client, paramsets, lim_plots, auto_no, mod, mods_done,
                   param_labels, decimarks, lim_labels, modality_dict, n_steps,
                   n_eligible, n_unreadable, n_broken, loaded_mods, raised,
                   parser_vars, fig_vars>>

\* auto_templates is exhausted: on to auto_vendor_templates
NextCollection ==
    /\ pc = "loop"
    /\ auto_no = 0
    /\ auto_no' = 1
    /\ mod' = "" /\ mods_done' = {}
    /\ temp' = NoEntry /\ appended' = FALSE /\ used_decimal' = ""
    /\ UNCHANGED <<pc, client, paramsets, lim_plots, param_labels, decimarks,
                   lim_labels, modality_dict, n_steps, n_eligible, n_unreadable,
                   n_broken, loaded_mods, raised, parser_vars, fig_vars>>

\* both collections are exhausted: prune and return
Finish ==
    /\ pc = "loop"
    /\ auto_no = 1
    /\ modality_dict' = Prune(modality_dict)
    /\ pc' = "done"
    /\ temp' = NoEntry /\ appended' = FALSE /\ used_decimal' = ""
    /\ UNCHANGED <<client, paramsets, lim_plots, auto_no, mod, mods_done,
                   param_labels, decimarks, lim_labels, n_steps, n_eligible,
                   n_unreadable, n_broken, loaded_mods, raised, parser_vars,
                   fig_vars>>

Next ==
    \/ \E m \in Mods : BeginModality(m)
    \/ \E e \in (IF auto_no = 0 THEN PrimaryEntries ELSE VendorEntries) : LoopBody(e)
    \/ NextTemp
    \/ NextCollection
    \/ Finish

Spec == Init /\ [][Next]_vars

(***************************************************************************)
(* SpecFig: generate_figure_list on the dataframe and the                  *)
(* limits_and_plot_template of a selected Template.                        *)
(***************************************************************************)
Values == {NaN} \cup {Num(n) : n \in -1..MaxVal}

\* the next value of the cycle NaN, -1, 0, 1, .., MaxVal
Rotate(c) ==
    IF c.k = "nan" THEN Num(-1)
    ELSE IF c.v = MaxVal THEN NaN
    ELSE Num(c.v + 1)

RECURSIVE RotateBy(_, _)
RotateBy(c, n) == IF n = 0 THEN c ELSE RotateBy(Rotate(c), n - 1)

\* dataframes of 1..MaxCols-1 channels: the first channel takes every column
\* of values, channel j is the first rotated j-1 times; row i is dated day i
FigFrames ==
    {[isNone |-> FALSE, ncols |-> n,
      rows |-> [i \in 1..Len(col) |->
                  [idx |-> i - 1,
                   cells |-> [j \in 1..n |-> IF j = 1 THEN Date(i)
                                             ELSE RotateBy(col[i], j - 2)]]]] :
        n \in 2..MaxCols,
        col \in {c \in SeqsUpTo(Values, FigRows) : Len(c) > 0}}

\* one channel with the samples 10, 10, 10, 10, 100, dated day 1..5
MedianExample ==
    [isNone |-> FALSE, ncols |-> 2,
     rows |-> [i \in 1..5 |->
                 [idx |-> i - 1,
                  cells |-> <<Date(i), IF i = 5 THEN Num(100) ELSE Num(10)>>]]]

\* groupings of the channel columns 2..n
GroupOptions(n) ==
    {[j \in 1..(n - 1) |-> <<j + 1>>],              \* one group per channel
     <<[j \in 1..(n - 1) |-> j + 1]>>,              \* all channels in one group
     <<[j \in 1..(n - 1) |-> n + 1 - j]>>,          \* the same, last channel first
     <<<<2>>>>}                                     \* the first channel only

Bounds == {PyNone} \cup {PyNum(v) : v \in 0..MaxVal}
Pcts == {PyNum(0), PyNum(20), PyNum(MaxPct)}

\* the [lower, upper] descriptors of groups_limits
LimitPairs ==
    {<<a, b>> : a \in Bounds, b \in Bounds}
    \cup {<<PyStr("text"), PyNone>>}
    \cup {<<PyStr(t), q>> : t \in {"relative_first", "relative_median"}, q \in Pcts}

FewLimitPairs == {<<PyNone, PyNone>>, <<PyNum(1), PyNum(1)>>, <<PyStr("text"), PyNone>>}

RangePairs == {<<a, b>> : a \in {PyNone, PyNum(0)}, b \in {PyNone, PyNum(MaxVal)}}

\* per group lists: the first group takes every choice of First, the others of Rest
PerGroup(g, First, Rest) ==
    {s \in [1..g -> First \cup Rest] : \A i \in 2..g : s[i] \in Rest}

Titles(g) == [i \in 1..g |-> "title " \o ToString(i)]

LimTemplatesFor(gr) ==
    LET g == Len(gr)
    IN {LimTemplate({"groups"}, "", gr, <<>>, <<>>, <<>>, <<>>)}
       \cup {LimTemplate({"groups", "groups_limits"}, "", gr, <<>>, li, <<>>, <<>>) :
                li \in PerGroup(g, LimitPairs, FewLimitPairs)}
       \cup {LimTemplate({"groups", "groups_ranges"}, "", gr, <<>>, <<>>, ra, <<>>) :
                ra \in PerGroup(g, RangePairs, {<<PyNone, PyNone>>})}
       \cup {LimTemplate({"groups", "groups_title"}, "", gr, <<>>, <<>>, <<>>, Titles(g))}
       \cup {LimTemplate({"label", "groups", "groups_hide", "groups_limits",
                          "groups_ranges", "groups_title"},
                         "L", gr, hi, li, ra, Titles(g)) :
                hi \in [1..g -> BOOLEAN],
                li \in PerGroup(g, FewLimitPairs, {<<PyNone, PyNone>>}),
                ra \in PerGroup(g, {<<PyNone, PyNone>>, <<PyNum(0), PyNum(MaxVal)>>},
                                {<<PyNone, PyNone>>})}

InitFig ==
    /\ pc = "select"
    /\ client = "none"
    /\ data \in FigFrames \cup {MedianExample}
    /\ lim_plot \in UNION {LimTemplatesFor(gr) : gr \in GroupOptions(data.ncols)}
    /\ figures = <<>>
    /\ fig_exc = ""
    /\ titles = <<>>
    /\ select_exc = ""
    /\ ParserIdle /\ AggIdle

DoGenerateFigureList ==
    /\ pc = "select"
    /\ LET r == on_template_select(data, lim_plot)
       IN /\ figures' = r.figures
          /\ fig_exc' = r.fig_exc
          /\ titles' = r.titles
          /\ select_exc' = r.select_exc
    /\ pc' = "figs_done"
    /\ UNCHANGED <<client, data, lim_plot, parser_vars, agg_vars>>

NextFig == DoGenerateFigureList

SpecFig == InitFig /\ [][NextFig]_vars

(***************************************************************************)
(* SpecLoad: one vendor result file of two columns, drawn cell by cell,    *)
(* loaded by get_data and then selected in the dashboard.                  *)
(***************************************************************************)
\* the date cell of a data line: empty, a date of January, or other text
LoadDates == {EmptyCell, RawText} \cup {RawDate(d, 1) : d \in 1..2}

\* data line i holds a date cell and the value i, or an empty value cell
LoadFiles ==
    UNION {{[kind |-> "ok", header |-> 2,
             rows |-> [i \in 1..n |->
                         <<d[i], IF v[i] THEN RawNum(i, "none") ELSE EmptyCell>>]] :
                d \in [1..n -> LoadDates], v \in [1..n -> BOOLEAN]} :
           n \in 0..MaxRows}

\* limits_and_plot_templates.yaml: one template LF for CT
LimFirst ==
    LimTemplate({"label", "groups", "groups_limits"}, "LF", <<<<2>>>>, <<>>,
                <<<<PyStr("relative_first"), PyNum(MaxPct)>>>>, <<>>, <<>>)

\* auto_vendor_templates.yaml: entries of CT that read the drawn file
LoadEntries ==
    {Entry(VendorKeys, "V", "res_input", TRUE, FALSE, "", "", ll) : ll \in {"", "LF"}}

InitLoad ==
    /\ pc = "loop"
    /\ client = "none"
    /\ input_file \in LoadFiles
    /\ decimal_mark = "."
    /\ csv_result = Returned(FALSE, NoFrame, "none")
    /\ paramsets = [m \in {"CT", "Xray"} |-> <<[label |-> "P1", decimal_mark |-> "."]>>]
    /\ lim_plots = [m \in {"CT"} |-> <<LimFirst>>]
    /\ auto_no = 0 /\ mod = "" /\ mods_done = {}
    /\ param_labels = <<>> /\ decimarks = <<>> /\ lim_labels = <<>>
    /\ modality_dict = <<>>
    /\ temp = NoEntry /\ appended = FALSE /\ used_decimal = ""
    /\ n_steps = 0 /\ n_eligible = 0 /\ n_unreadable = 0 /\ n_broken = 0
    /\ loaded_mods = {}
    /\ raised = ""
    /\ FigIdle

\* on_template_select on Template j of modality i of the returned collection
SelectTemplate(i, j) ==
    /\ pc = "done"
    /\ i \in 1..Len(modality_dict)
    /\ j \in 1..Len(modality_dict[i].templates)
    /\ LET t == modality_dict[i].templates[j]
           r == on_template_select(t.data, t.limits_and_plot_template)
       IN /\ data' = t.data
          /\ lim_plot' = t.limits_and_plot_template
          /\ figures' = r.figures
          /\ fig_exc' = r.fig_exc
          /\ titles' = r.titles
          /\ select_exc' = r.select_exc
    /\ pc' = "figs_done"
    /\ UNCHANGED <<client, parser_vars, agg_vars>>

\* auto_templates.yaml is empty; the vendor collection has CT only
NextLoad ==
    \/ NextCollection
    \/ auto_no = 1 /\ BeginModality("CT")
    \/ \E e \in LoadEntries : auto_no = 1 /\ LoopBody(e)
    \/ NextTemp
    \/ Finish
    \/ \E i \in 1..Cardinality(Mods), j \in 1..MaxTemplates : SelectTemplate(i, j)

SpecLoad == InitLoad /\ [][NextLoad]_vars

(***************************************************************************)
(* Properties.                                                             *)
(***************************************************************************)
\* the Template the last loop body appended
LastTemplate ==
    LET ts == TemplatesOf(modality_dict, mod) IN ts[Len(ts)]

\* C1: Aggregator best effort.  When exactly one eligible template has a
\* missing or unreadable result file and every other eligible template gave a
\* Template (all labels resolving), get_data does not raise and returns
\* exactly the N-1 other templates.
C1_BestEffort ==
    (/\ n_unreadable = 1
     /\ n_broken = 0
     /\ raised \notin {"ValueError", "IndexError", "KeyError"})
        => /\ pc # "raised"
           /\ pc = "done" => CountTemplates(modality_dict) = n_eligible - 1

\* C2: Configuration mismatch is never fatal.  No parameter-set label or
\* limit/plot label that is absent from its modality's collection, and no
\* modality without a parameter-set collection, makes the pass raise.
C2_MismatchNeverFatal ==
    pc = "raised" => raised \notin {"ValueError", "IndexError", "KeyError"}

\* C3: Modality pruning.  The returned collection has no modality with an
\* empty template list, and its keys are exactly the modalities that got at
\* least one Template.
C3_ModalityPruning ==
    pc = "done" =>
        /\ \A i \in 1..Len(modality_dict) : Len(modality_dict[i].templates) > 0
        /\ Keys(modality_dict) = loaded_mods

\* a pass that returned one modality and dropped another it had iterated
C3_Witness ==
    /\ pc = "done"
    /\ Len(modality_dict) = 1
    /\ mods_done \ Keys(modality_dict) # {}

\* C4: read_csv never raises to its caller, for either backend.
C4_ParserNeverRaises ==
    pc = "returned" => csv_result.exc = ""

DataLines(file) == Len(SelectSeq(file.rows, LAMBDA r : ~IsBlankLine(r)))

\* C5: read_csv returns status True exactly when a parse succeeded and gave
\* at least two data rows; a file of a header and zero or one data row gives
\* status False.
C5_StatusIffTwoRows ==
    (pc = "returned" /\ csv_result.exc = "") =>
        /\ csv_result.status <=>
              (~csv_result.dataframe.isNone /\ Len(csv_result.dataframe.rows) >= 2)
        /\ csv_result.status <=>
              (input_file.kind = "ok" /\ DataLines(input_file) >= 2)

\* a header and exactly one data row: parsed, status False
C5_Witness ==
    /\ pc = "returned"
    /\ csv_result.exc = ""
    /\ input_file.kind = "ok"
    /\ DataLines(input_file) = 1
    /\ ~csv_result.dataframe.isNone
    /\ ~csv_result.status

\* the strict parse fails on a line with more fields than the header
StrictFailsOnColumns(file, dm) ==
    file.kind = "ok" /\ pd_read_csv(file, dm, 0).exc = "ParserError"

\* C6: Parser fallback.  When the strict parse fails on inconsistent column
\* counts, read_csv retries restricted to the column count of the first line;
\* a retry of at least two rows gives status True and a table of exactly that
\* many columns, and status False is returned only when the retry fails.
C6_Fallback ==
    (pc = "returned" /\ StrictFailsOnColumns(input_file, decimal_mark)) =>
        LET retry == pd_read_csv(input_file, decimal_mark, input_file.header)
        IN /\ csv_result.exc = ""
           /\ csv_result.via = "fallback"
           /\ (retry.exc = "" /\ Len(retry.dataframe.rows) >= 2) =>
                 /\ csv_result.status
                 /\ csv_result.dataframe = retry.dataframe
                 /\ csv_result.dataframe.ncols = input_file.header
           /\ ~csv_result.status => retry.exc # ""

LabelMatches ==
    /\ temp.limits_and_plot_label # ""
    /\ \E i \in 1..Len(lim_labels) : lim_labels[i] = temp.limits_and_plot_label

\* C8: Default grouping.  A Template whose limit/plot label is empty or
\* unmatched gets one single-channel group per data channel, in column order,
\* and nothing else; its limit evaluation gives one figure per channel with
\* the channel's series only, no threshold line, no out-of-limit trace and
\* full autorange.  A matched label gets the matched collection entry.
C8_DefaultGrouping ==
    appended =>
        LET t == LastTemplate
            lt == t.limits_and_plot_template
            n == t.data.ncols - 1
            out == generate_figure_list(t.data, lt)
        IN IF LabelMatches
           THEN \E i \in 1..Len(lim_plots[mod]) :
                    /\ lim_plots[mod][i].label = temp.limits_and_plot_label
                    /\ lt = lim_plots[mod][i]
           ELSE /\ lt.keys = {"groups"}
                /\ Len(lt.groups) = n
                /\ \A j \in 1..n : lt.groups[j] = <<j + 1>>
                /\ out.exc = ""
                /\ Len(out.figures) = n
                /\ \A j \in 1..n :
                      /\ out.figures[j].kind = "figure"
                      /\ out.figures[j].hlines = <<>>
                      /\ Len(out.figures[j].traces) = 1
                      /\ out.figures[j].traces[1].name = j + 1
                      /\ out.figures[j].traces[1].mode = "lines+markers"
                      /\ out.figures[j].traces[1].y = Column(t.data, j + 1)
                      /\ out.figures[j].autorange = "True"
                      /\ out.figures[j].range = <<NoBound, NoBound>>

\* a Template of two channels whose label LX is in no collection
C8_Witness ==
    /\ appended
    /\ temp.limits_and_plot_label = "LX"
    /\ LastTemplate.data.ncols = 3
    /\ Len(LastTemplate.limits_and_plot_template.groups) = 2

\* the threshold a figure shows on one side ("bottom": lower, "top": upper)
ShownBound(fig, side) ==
    IF \E i \in 1..Len(fig.hlines) : fig.hlines[i].yanchor = side
    THEN fig.hlines[CHOOSE i \in 1..Len(fig.hlines) : fig.hlines[i].yanchor = side].y
    ELSE NoBound

\* the points of the red marker traces of channel h
FlaggedPoints(fig, h) ==
    UNION {{<<fig.traces[i].x[k], fig.traces[i].y[k]>> : k \in 1..Len(fig.traces[i].x)} :
              i \in {i \in 1..Len(fig.traces) :
                        fig.traces[i].mode = "markers" /\ fig.traces[i].name = h}}

\* C9: Out-of-limit flagging.  In every figure, a sample of a channel of the
\* group is in the out-of-limit traces exactly when it is strictly below the
\* lower or strictly above the upper threshold of the figure; a sample equal
\* to a threshold, or on a side without threshold, is not; the main series of
\* every channel holds every sample of the table.
C9_OutOfLimitFlagging ==
    (pc = "figs_done" /\ fig_exc = "") =>
        \A g \in 1..Len(figures) :
            figures[g].kind = "figure" =>
                LET fig == figures[g]
                    group == lim_plot.groups[g]
                    lower == ShownBound(fig, "bottom")
                    upper == ShownBound(fig, "top")
                IN \A n \in 1..Len(group) :
                      /\ fig.traces[n].mode = "lines+markers"
                      /\ fig.traces[n].name = group[n]
                      /\ fig.traces[n].x = Column(data, 1)
                      /\ fig.traces[n].y = Column(data, group[n])
                      /\ FlaggedPoints(fig, group[n]) =
                            {<<data.rows[i].cells[1], data.rows[i].cells[group[n]]>> :
                                i \in {i \in 1..Len(data.rows) :
                                          \/ Below(data.rows[i].cells[group[n]], lower)
                                          \/ Above(data.rows[i].cells[group[n]], upper)}}

\* a figure with a lower threshold, a sample on it and a flagged sample below
C9_Witness ==
    /\ pc = "figs_done" /\ fig_exc = ""
    /\ \E g \in 1..Len(figures) :
          /\ figures[g].kind = "figure"
          /\ ShownBound(figures[g], "bottom").k = "rat"
          /\ \E i \in 1..Len(data.rows) :
                LET c == data.rows[i].cells[lim_plot.groups[g][1]]
                    b == ShownBound(figures[g], "bottom")
                IN c.k = "num" /\ c.v * b.den = b.num
          /\ FlaggedPoints(figures[g], lim_plot.groups[g][1]) # {}

\* the threshold lines of a Fixed descriptor: each non-null bound verbatim
FixedLines(lims) ==
    (IF lims[1].k = "none" THEN <<>>
     ELSE <<[y |-> Rat(lims[1].v, 1), text |-> [pre |-> "min", arg |-> lims[1]],
             yanchor |-> "bottom"]>>)
    \o (IF lims[2].k = "none" THEN <<>>
        ELSE <<[y |-> Rat(lims[2].v, 1), text |-> [pre |-> "max", arg |-> lims[2]],
                yanchor |-> "top"]>>)

\* C10: Threshold gating and fixed bounds.  Whenever groups_limits is present
\* and at least one entry of the group is non-null, a Fixed descriptor gives a
\* threshold line for each non-null bound, whatever its value, labelled
\* min {lower} / max {upper}.
C10_FixedBoundsVerbatim ==
    (pc = "figs_done" /\ fig_exc = "") =>
        \A g \in 1..Len(figures) :
            (/\ figures[g].kind = "figure"
             /\ "groups_limits" \in lim_plot.keys
             /\ lim_plot.groups_limits[g][1].k \in {"none", "num"}
             /\ lim_plot.groups_limits[g][2].k \in {"none", "num"}
             /\ \/ lim_plot.groups_limits[g][1].k # "none"
                \/ lim_plot.groups_limits[g][2].k # "none")
                => figures[g].hlines = FixedLines(lim_plot.groups_limits[g])

\* a/b = c/d for rationals with positive denominators
SameRat(x, n, d) == x.k = "rat" /\ x.num * d = n * x.den

\* the visible groups whose descriptor is the tag `tag`
TaggedGroups(tag) ==
    {g \in 1..Len(figures) :
        /\ figures[g].kind = "figure"
        /\ "groups_limits" \in lim_plot.keys
        /\ lim_plot.groups_limits[g][1] = PyStr(tag)}

\* the samples of channel h that are below lo/100d or above hi/100d
OutsidePoints(h, lo, hi, d) ==
    {<<data.rows[i].cells[1], data.rows[i].cells[h]>> :
        i \in {i \in 1..Len(data.rows) :
                  /\ data.rows[i].cells[h].k = "num"
                  /\ \/ data.rows[i].cells[h].v * d < lo
                     \/ data.rows[i].cells[h].v * d > hi}}

\* C11: Relative-median threshold.  For (relative_median, p) the reference
\* is the median of all samples but the last of the anchor channel (the last
\* channel of the group), the thresholds are reference -/+ p% of it, and
\* exactly the samples outside them are flagged; the samples 10, 10, 10, 10,
\* 100 with p = 20 give the thresholds 8 and 12 and flag only the sample 100.
C11_RelativeMedian ==
    (pc = "figs_done" /\ fig_exc = "") =>
        /\ \A g \in TaggedGroups("relative_median") :
              LET group == lim_plot.groups[g]
                  anchor == group[Len(group)]
                  col == Column(data, anchor)
                  ref == SubSeq(col, 1, Len(col) - 1)
                  p == lim_plot.groups_limits[g][2].v
              IN (ref # <<>> /\ \A i \in 1..Len(ref) : ref[i].k = "num") =>
                    LET srt == SortInts([i \in 1..Len(ref) |-> ref[i].v])
                        n == Len(srt)
                        \* twice the median
                        med2 == srt[(n + 1) \div 2] + srt[(n + 2) \div 2]
                    IN /\ Len(figures[g].hlines) = 2
                       /\ SameRat(figures[g].hlines[1].y, med2 * (100 - p), 200)
                       /\ SameRat(figures[g].hlines[2].y, med2 * (100 + p), 200)
                       /\ \A k \in 1..Len(group) :
                             FlaggedPoints(figures[g], group[k]) =
                                OutsidePoints(group[k], med2 * (100 - p),
                                              med2 * (100 + p), 200)
        /\ (data = MedianExample /\ 1 \in TaggedGroups("relative_median")
                /\ lim_plot.groups_limits[1][2] = PyNum(20)) =>
              /\ SameRat(figures[1].hlines[1].y, 8, 1)
              /\ SameRat(figures[1].hlines[2].y, 12, 1)
              /\ FlaggedPoints(figures[1], 2) = {<<Date(5), Num(100)>>}

\* the worked example: 10, 10, 10, 10, 100 under (relative_median, 20)
C11_Witness ==
    /\ pc = "figs_done" /\ fig_exc = ""
    /\ data = MedianExample
    /\ 1 \in TaggedGroups("relative_median")
    /\ lim_plot.groups_limits[1][2] = PyNum(20)
    /\ Len(figures[1].traces) = 2

\* C15: Axis range policy per group.  Both bounds given: the range is fixed
\* and autorange is off; none given, or no groups_ranges at all: both ends
\* are autoranged; only the lower bound given: the axis is anchored at that
\* minimum and the upper end autoranged; only the upper bound given: anchored
\* at that maximum and the lower end autoranged.
C15_AxisRangePolicy ==
    (pc = "figs_done" /\ fig_exc = "") =>
        \A g \in 1..Len(figures) :
            figures[g].kind = "figure" =>
                LET pair == IF "groups_ranges" \in lim_plot.keys
                            THEN lim_plot.groups_ranges[g]
                            ELSE <<PyNone, PyNone>>
                    given == {i \in 1..2 : pair[i].k # "none"}
                IN /\ AxisEnds(figures[g]) = <<PyToBound(pair[1]), PyToBound(pair[2])>>
                   /\ figures[g].autorange \in {"True", "False", "min", "max"}
                   /\ figures[g].autorange = "False" <=> given = {1, 2}
                   /\ figures[g].autorange = "True" <=> given = {}
                   /\ given = {} => figures[g].range = <<NoBound, NoBound>>

\* a group with the lower bound 0 only: the axis starts at 0, the top is free
C15_Witness ==
    /\ pc = "figs_done" /\ fig_exc = ""
    /\ "groups_ranges" \in lim_plot.keys
    /\ lim_plot.groups_ranges[1] = <<PyNum(0), PyNone>>
    /\ figures[1].kind = "figure"
    /\ AxisEnds(figures[1]) = <<Rat(0, 1), NoBound>>

\* C19: Relative bounds are well ordered.  For relative_first and
\* relative_median with any reference (positive, zero, negative) and p >= 0
\* the lower threshold is at most the upper one, and a sample equal to the
\* reference value is never flagged.
C19_RelativeBoundsOrdered ==
    (pc = "figs_done" /\ fig_exc = "") =>
        \A g \in TaggedGroups("relative_first") \cup TaggedGroups("relative_median") :
            LET lo == ShownBound(figures[g], "bottom")
                hi == ShownBound(figures[g], "top")
                group == lim_plot.groups[g]
                anchor == group[Len(group)]
                first == data.rows[1]       \* the reference sample of relative_first
            IN (lo.k = "rat" /\ hi.k = "rat") =>
                  /\ lo.num * hi.den <= hi.num * lo.den
                  /\ g \in TaggedGroups("relative_first") =>
                        <<first.cells[1], first.cells[anchor]>>
                            \notin FlaggedPoints(figures[g], anchor)

\* the groups that are not hidden, in order
VisibleGroups(lp) ==
    LET F[n \in 0..Len(lp.groups)] ==
            IF n = 0 THEN <<>>
            ELSE IF "groups_hide" \in lp.keys /\ lp.groups_hide[n] THEN F[n - 1]
            ELSE Append(F[n - 1], n)
    IN F[Len(lp.groups)]

\* the channels a figure draws, in order
SeriesNames(fig) ==
    LET main == SelectSeq(fig.traces, LAMBDA t : t.mode = "lines+markers")
    IN [n \in 1..Len(main) |-> main[n].name]

\* C13: Hidden groups.  The list of figures holds one figure per visible
\* group and nothing for a hidden one: its length is the number of visible
\* groups and its k-th element is the figure of the group of the k-th title
\* of groups_title filtered by the same hide flags.
C13_HiddenGroups ==
    (pc = "figs_done" /\ fig_exc = "") =>
        LET vis == VisibleGroups(lim_plot)
        IN /\ Len(figures) = Len(vis)
           /\ \A k \in 1..Len(figures) :
                 /\ figures[k].kind = "figure"
                 /\ SeriesNames(figures[k]) = lim_plot.groups[vis[k]]
                 /\ {"groups_title", "groups_hide"} \subseteq lim_plot.keys =>
                       titles[k] = TitleItem(lim_plot.groups_title[vis[k]])

\* C14: Absent hide flags mean visible.  Without a groups_hide field every
\* group gets a figure, and with groups_title present the title column is
\* groups_title, unfiltered.
C14_AbsentHideVisible ==
    (pc = "figs_done" /\ fig_exc = "" /\ "groups_hide" \notin lim_plot.keys) =>
        /\ Len(figures) = Len(lim_plot.groups)
        /\ \A g \in 1..Len(figures) :
              /\ figures[g].kind = "figure"
              /\ SeriesNames(figures[g]) = lim_plot.groups[g]
        /\ "groups_title" \in lim_plot.keys =>
              titles = [i \in 1..Len(lim_plot.groups_title) |->
                          TitleItem(lim_plot.groups_title[i])]

\* the loop body just run read a file that parsed with status True
Parsed ==
    /\ pc \in {"next_temp", "raised"}
    /\ temp # NoEntry /\ Gate(temp)
    /\ read_csv(FileAt(temp.path_output), ".", client).status

\* C12: Relative-first threshold.  For (relative_first, p) the reference is
\* the value of the earliest row of the table (ascending by timestamp,
\* whatever the row order of the file and whichever rows were dropped) for
\* the last channel of the group, and the thresholds are reference -/+ p%.
C12_RelativeFirst ==
    (pc = "figs_done" /\ lim_plot.label = "LF" /\ data.rows # <<>>) =>
        LET group == lim_plot.groups[1]
            ref == data.rows[1].cells[group[Len(group)]]
            p == lim_plot.groups_limits[1][2].v
        IN ref.k = "num" =>
              /\ fig_exc = ""
              /\ Len(figures[1].hlines) = 2
              /\ SameRat(figures[1].hlines[1].y, ref.v * (100 - p), 100)
              /\ SameRat(figures[1].hlines[2].y, ref.v * (100 + p), 100)

\* C16: Freshness.  Every table that get_data loads gives a Template; when
\* the timestamp of the last row of the ascending table is not a valid date,
\* newest_date is 'error' and days_since -1000; otherwise newest_date is that
\* date, the latest of the table, and days_since is today minus it in days.
C16_Freshness ==
    Parsed =>
        /\ appended
        /\ LET t == LastTemplate
               n == Len(t.data.rows)
           IN IF n = 0 \/ t.data.rows[n].cells[1].k # "date"
              THEN t.newest_date = "error" /\ t.days_since = -1000
              ELSE /\ t.newest_date = ToString(t.data.rows[n].cells[1].v)
                   /\ \A i \in 1..n : /\ t.data.rows[i].cells[1].k = "date"
                                       /\ t.data.rows[i].cells[1].v
                                             <= t.data.rows[n].cells[1].v
                   /\ t.days_since = Today - t.data.rows[n].cells[1].v

\* C17: Row filtering.  Every row of the table of a returned Template has a
\* timestamp and at least one channel value; a row whose channels are all
\* absent is dropped even when its date cell is filled in.
C17_RowFiltering ==
    appended =>
        \A i \in 1..Len(LastTemplate.data.rows) :
            LET cells == LastTemplate.data.rows[i].cells
            IN /\ cells[1].k \notin {"nan", "nat"}
               /\ \E j \in 2..Len(cells) : cells[j].k # "nan"

\* C20: Every Template of the returned collection holds a table of at least
\* two rows, after the empty rows were dropped.
C20_TwoRowsAfterDrop ==
    appended => Len(LastTemplate.data.rows) >= 2

\* every data line has as many fields as the header line
WellFormed(file) ==
    /\ file.kind = "ok"
    /\ \A i \in 1..Len(file.rows) : Len(file.rows[i]) = file.header

\* C18: Parser fallback is idempotent on well-formed files.  For a file
\* whose data lines all have the column count of the header, the parse
\* restricted to the first line's column count gives the same status and the
\* same table as the strict parse.
C18_FallbackIdempotent ==
    (pc = "returned" /\ WellFormed(input_file)) =>
        LET strict == pd_read_csv(input_file, decimal_mark, 0)
            retry == pd_read_csv(input_file, decimal_mark, input_file.header)
            fallback == read_csv_fallback(input_file, decimal_mark, "none")
        IN /\ strict.exc = "" /\ retry = strict
           /\ csv_result.via = "strict"
           /\ fallback.exc = ""
           /\ fallback.status = csv_result.status
           /\ fallback.dataframe = csv_result.dataframe

\* a well-formed file of three columns and two data lines, status True
C18_Witness ==
    /\ pc = "returned"
    /\ WellFormed(input_file)
    /\ input_file.header = 3
    /\ Len(input_file.rows) = 2
    /\ csv_result.status
    /\ read_csv_fallback(input_file, decimal_mark, "none").status

=============================================================================
